---- MODULE Spec2Model ----
(***************************************************************************)
(* Model of the Physical AI textbook system: the cost and rate governor,   *)
(* the RAG answer pipeline, the Postgres-backed content caches and the     *)
(* ChatBot widget of the Docusaurus frontend.                              *)
(*                                                                         *)
(* Each subsystem has its own specification over the shared variables:     *)
(*   SpecGov     - the rate governor (admit, window rollover)              *)
(*   SpecCacheDB - personalize / translate handlers over the cache tables  *)
(*   SpecChatUI  - the ChatBot widget, api.chat and the chat endpoint      *)
(*   SpecAuth    - signup and login: the AuthModal, api.ts, the auth        *)
(*                 router and the users table                             *)
(*   SpecQuiz    - the Quiz component: renders, answers, submit, retake    *)
(*   SpecAuthModal - the AuthModal's form against any reply of the server  *)
(*   SpecHome    - the home page: login state, localStorage, the widgets   *)
(*   SpecDb      - database.py: get_db_pool and close_db_pool              *)
(*   SpecBudget  - admit next to the Governor's token-spend tracking       *)
(*   SpecAssemble - the Context Assembler's assemble, call by call          *)
(*   SpecAsk     - the RAG answer pipeline (admit, cache, retrieve,        *)
(*                 assemble, answer, cache write and interaction log)      *)
(***************************************************************************)
EXTENDS Integers, Sequences, FiniteSets, TLC

\* ------------------------------------------------------------------ bounds
\* Clock advances a behaviour may take.
MaxTicks == 1
\* Request slots that may be in flight at once in the governor.
GovSlots == 2
\* Personalization / translation requests of one run.
CacheReqs == 2
\* Questions put to the RAG pipeline in one run.
AskReqs == 2
\* assemble calls recorded in one behaviour
MaxAsmCalls == 2
\* Answer options of a quiz question.
QuizOptions == 2
\* Requests started against the auth endpoints in one run: signups posted
\* to the API directly and submissions of the AuthModal's form together.
SignupReqs == 2
\* Requests the widgets of the home page send in one run.
WidgetSends == 2
\* Coroutines that call get_db_pool in one run.
PoolCallers == 3

\* --------------------------------------------------------------- constants
QuestionsPerHour == 20
TranslationsPerDay == 5
PersonalizationsPerDay == 5
\* Retriever defaults: top_k, and the similarity threshold in hundredths.
TopK == 5
Threshold == 70
\* RAG context budget in tokens.
ContextBudget == 2200
\* Retries of a failed generation call, and the first backoff delay (seconds).
MaxRetries == 3
\* UserCreate.password min_length; the AuthModal password input's minLength
\* The smallest number of questions the Quiz component accepts.
MinQuestions == 5
MinPasswordLength == 8
FormMinLength == 6
BaseDelay == 1
\* The clock counts hours.
HourTicks == 1
DayTicks == 24

Users == {"u1", "u2"}
\* Requests without a bearer token are counted under one shared identity.
Anonymous == "anonymous"
Identities == Users \cup {Anonymous}
Kinds == {"question", "personalization", "translation"}
NoUser == "none"

VARIABLES
    now,        \* governor clock, in hours
    ticks,      \* clock advances taken so far
    usage,      \* UsageWindow per (user, kind): [window_start, count]
    pending,    \* in-flight admission requests: slot -> [user, kind] or idle
    admitted,   \* per (user, kind): Allowed decisions in the current window
    calls,      \* per (user, kind): admit calls in the current window, saturating
    lastResult, \* per (user, kind): result of the most recent admit call
    load,       \* the request kind the clients of this run send to the governor
    cacheTable, \* Postgres cache tables: table name -> sequence of rows
    creq,       \* personalize / translate requests being handled
    lastPut,    \* per table and key: outcome of the most recent save_* call
    question,   \* ChatBot state: the textarea's text
    response,   \* ChatBot state: the answer on display
    loading,    \* ChatBot state
    error,      \* ChatBot state: the error on display
    chatFetch,  \* the HTTP exchange of api.chat: none, sent or replied
    lastReply,  \* the reply the last completed submit received
    ask,        \* RAG pipeline: the questions being handled, by slot
    ragCache,   \* Response Cache: fingerprint -> CacheEntry
    ilog,       \* Interaction Log: the rows (InteractionRecords) of the table
    world       \* the services around the pipeline: what the Chunk Store's
                \* index answers, how many generation calls will still fail,
                \* whether the Chunk Store, the cache store and the log store
                \* are reachable, whether callers disconnect, whether time
                \* passes between the requests
VARIABLES
    asm         \* Context Assembler: the assemble calls made so far, each
                \* with its arguments and the AssembledContext it returned
VARIABLES
    spend       \* Governor token-spend tracking, per user: estimated tokens
                \* of the day, whether the over-budget signal was raised, and
                \* whether a request was Allowed while over budget
VARIABLES
    users,      \* Postgres table users: its rows and the id sequence
    signups,    \* POST /api/auth/signup requests sent to the API directly
    authUI,     \* AuthModal state and what it did through its props
    authFetch,  \* the HTTP exchange the AuthModal is waiting for
    storage     \* the browser's localStorage: token and user
VARIABLES
    home,       \* the Home page: isAuthenticated and user
    widgets     \* the ChatBot, Personalization and Translation widgets:
                \* Date.now() and the requests they have sent
VARIABLES
    db          \* database.py: the global _pool, the pools created and closed
                \* so far, the coroutines inside get_db_pool and close_db_pool
VARIABLES
    quiz        \* Quiz component: its props, its useState values and which
                \* of its renders is on screen

govVars == <<now, ticks, usage, pending, admitted, calls, lastResult, load>>
cacheVars == <<cacheTable, creq, lastPut>>
chatVars == <<question, response, loading, error, chatFetch, lastReply>>
askVars == <<ask, ragCache, ilog, world>>
asmVars == <<asm>>
spendVars == <<spend>>
authVars == <<users, signups, authUI, authFetch, storage>>
quizVars == <<quiz>>
homeVars == <<home, widgets>>
dbVars == <<db>>
otherVars == <<asmVars, spendVars, authVars, quizVars, homeVars, dbVars>>
vars == <<govVars, cacheVars, chatVars, askVars, otherVars>>

\* ============================================================ rate governor
LimitOffByOne(k) ==
    IF k = "question" THEN QuestionsPerHour + 1
    ELSE IF k = "personalization" THEN PersonalizationsPerDay + 1
    ELSE TranslationsPerDay + 1

Limit(k) ==
    IF k = "question" THEN QuestionsPerHour
    ELSE IF k = "personalization" THEN PersonalizationsPerDay
    ELSE TranslationsPerDay

WindowLen(k) == IF k = "question" THEN HourTicks ELSE DayTicks

Idle == [user |-> NoUser, kind |-> "none"]
NoResult == [allowed |-> FALSE, retry_after |-> 0, made |-> FALSE]

WindowExpired(w, k) == now >= w.window_start + WindowLen(k)

\* The window a request at time `now` falls in: the stored one, or a fresh
\* one when the stored window has rolled over.
CurrentWindow(w, k) ==
    IF WindowExpired(w, k) THEN [window_start |-> now, count |-> 0] ELSE w

IncrementedLost(c) == c

Incremented(c) == c + 1

RetryAfter(w, k) == w.window_start + WindowLen(k) - now

\* The daily token budget of a user, in tokens.
DailyTokenBudget == 2 * ContextBudget

HasQuotaAndBudget(u, k, w) ==
    w.count < Limit(k) /\ spend[u].tokens <= DailyTokenBudget

\* The request-count check of admit; the token spend has no part in it.
HasQuota(u, k, w) == w.count < Limit(k)

\* admit(user_id, kind) -> Allowed | Denied(retry_after)
admit(u, k) ==
    LET w == CurrentWindow(usage[u][k], k) IN
    IF HasQuota(u, k, w)
    THEN [allowed |-> TRUE, retry_after |-> 0,
          window |-> [w EXCEPT !.count = Incremented(@)]]
    ELSE [allowed |-> FALSE, retry_after |-> RetryAfter(w, k), window |-> w]

GovInit ==
    /\ now = 0
    /\ ticks = 0
    /\ usage = [u \in Identities |-> [k \in Kinds |-> [window_start |-> 0, count |-> 0]]]
    /\ pending = [s \in 1..GovSlots |-> Idle]
    /\ admitted = [u \in Identities |-> [k \in Kinds |-> 0]]
    /\ calls = [u \in Identities |-> [k \in Kinds |-> 0]]
    /\ lastResult = [u \in Identities |-> [k \in Kinds |-> NoResult]]
    /\ load \in Kinds

\* A request of kind k for user u reaches the server.
Arrive(s, u, k) ==
    /\ pending[s] = Idle
    /\ k = load
    /\ pending' = [pending EXCEPT ![s] = [user |-> u, kind |-> k]]
    /\ UNCHANGED <<now, ticks, usage, admitted, calls, lastResult, load>>

\* One admit call: the window is rolled over if it has expired, the request
\* is checked against the limit and, when Allowed, counted.  The check and
\* the increment are one step (atomic counter update).
Decide(u, k) ==
    LET rolled == WindowExpired(usage[u][k], k)
        d == admit(u, k)
        a0 == IF rolled THEN 0 ELSE admitted[u][k]
        c0 == IF rolled THEN 0 ELSE calls[u][k]
    IN /\ usage' = [usage EXCEPT ![u][k] = d.window]
       /\ admitted' = [admitted EXCEPT ![u][k] = IF d.allowed THEN a0 + 1 ELSE a0]
       /\ calls' = [calls EXCEPT ![u][k] = IF c0 <= Limit(k) THEN c0 + 1 ELSE c0]
       /\ lastResult' = [lastResult EXCEPT ![u][k] =
              [allowed |-> d.allowed, retry_after |-> d.retry_after, made |-> TRUE]]

\* The governor decides the request in slot s.
Admit(s) ==
    /\ pending[s] # Idle
    /\ Decide(pending[s].user, pending[s].kind)
    /\ pending' = [pending EXCEPT ![s] = Idle]
    /\ UNCHANGED <<now, ticks, load>>

\* Time passes: an hour or a day.
Tick(d) ==
    /\ ticks < MaxTicks
    /\ now' = now + d
    /\ ticks' = ticks + 1
    /\ UNCHANGED <<usage, pending, admitted, calls, lastResult, load>>

GovNext ==
    \/ \E s \in 1..GovSlots, u \in Users, k \in Kinds :
          Arrive(s, u, k) /\ UNCHANGED <<cacheVars, chatVars, askVars, otherVars>>
    \/ \E s \in 1..GovSlots : Admit(s) /\ UNCHANGED <<cacheVars, chatVars, askVars, otherVars>>
    \/ \E d \in {HourTicks, DayTicks} : Tick(d) /\ UNCHANGED <<cacheVars, chatVars, askVars, otherVars>>

\* ------------------------------------------------------- governor: claims
\* The documented default quota of a request kind.
DefaultQuota(k) ==
    CASE k = "question" -> 20
      [] k = "personalization" -> 5
      [] k = "translation" -> 5

\* C3: within one window every admit call up to the Nth (N = the configured
\* limit: 20 questions, 5 personalizations, 5 translations) is Allowed, and
\* the (N+1)th call of the same window is Denied with retry_after > 0.
C3_RateLimitBoundary ==
    \A u \in Users, k \in Kinds :
        /\ calls[u][k] \in 1..DefaultQuota(k) => lastResult[u][k].allowed
        /\ calls[u][k] = DefaultQuota(k) + 1 =>
               /\ ~lastResult[u][k].allowed
               /\ lastResult[u][k].retry_after > 0

\* The 21st question of one hour has been decided.
C3_Witness ==
    \E u \in Users :
        /\ calls[u]["question"] = QuestionsPerHour + 1
        /\ lastResult[u]["question"].made
        /\ usage[u]["question"].count = QuestionsPerHour

CacheTables == {"translations_cache", "personalized_content_cache"}
Chapters == {"ch1", "ch2"}
Variants(t) == IF t = "translations_cache" THEN {"ur"} ELSE {"beginner", "advanced"}
AllVariants == {"ur", "beginner", "advanced"}
Contents == {"A", "B"}
NoContent == "none"

RowsFor(tbl, ch, v) ==
    {i \in 1..Len(tbl) : tbl[i].chapter_id = ch /\ tbl[i].variant = v}

\* UNIQUE(chapter_id, language) / UNIQUE(chapter_id, user_level)
UniqueKey(tbl, ch, v) == RowsFor(tbl, ch, v) = {}

\* get_translation / get_personalized_content: SELECT ... WHERE key
get_cached(t, ch, v) ==
    LET rows == RowsFor(cacheTable[t], ch, v) IN
    IF rows = {} THEN NoContent
    ELSE cacheTable[t][CHOOSE i \in rows : \A j \in rows : i <= j].content

\* save_translation / save_personalized_content: a plain INSERT.  A second
\* row for a key violates the UNIQUE constraint: the statement raises and
\* the table is left as it was.
save_cached(t, ch, v, c) ==
    IF UniqueKey(cacheTable[t], ch, v)
    THEN [ok |-> TRUE,
          table |-> Append(cacheTable[t], [chapter_id |-> ch, variant |-> v, content |-> c])]
    ELSE [ok |-> FALSE, table |-> cacheTable[t]]

CIdle == [pc |-> "idle", table |-> "none", chapter_id |-> "none", variant |-> "none",
          content |-> NoContent, cached |-> FALSE]
NoPut == [made |-> FALSE, ok |-> FALSE, content |-> NoContent]

CacheInit ==
    /\ cacheTable = [t \in CacheTables |-> <<>>]
    /\ creq = [r \in 1..CacheReqs |-> CIdle]
    /\ lastPut = [t \in CacheTables |-> [ch \in Chapters |-> [v \in AllVariants |-> NoPut]]]

\* POST /api/personalize/chapter or /api/translate/chapter arrives.
CStart(r, t, ch, v) ==
    /\ creq[r].pc = "idle"
    /\ v \in Variants(t)
    /\ creq' = [creq EXCEPT ![r] = [CIdle EXCEPT !.pc = "lookup", !.table = t,
                                     !.chapter_id = ch, !.variant = v]]
    /\ UNCHANGED <<cacheTable, lastPut>>

\* "check DB first": a hit answers from the cache, a miss goes on to Claude.
CLookup(r) ==
    /\ creq[r].pc = "lookup"
    /\ LET c == get_cached(creq[r].table, creq[r].chapter_id, creq[r].variant) IN
       creq' = [creq EXCEPT ![r] =
                   IF c = NoContent THEN [@ EXCEPT !.pc = "generate"]
                   ELSE [@ EXCEPT !.pc = "done", !.content = c, !.cached = TRUE]]
    /\ UNCHANGED <<cacheTable, lastPut>>

\* "call Claude if not cached": the model returns some text.
CGenerate(r, c) ==
    /\ creq[r].pc = "generate"
    /\ creq' = [creq EXCEPT ![r] = [@ EXCEPT !.pc = "save", !.content = c]]
    /\ UNCHANGED <<cacheTable, lastPut>>

\* Claude fails: nothing is cached and the user sees an error.
CGenerateFail(r) ==
    /\ creq[r].pc = "generate"
    /\ creq' = [creq EXCEPT ![r] = [@ EXCEPT !.pc = "failed"]]
    /\ UNCHANGED <<cacheTable, lastPut>>

\* "save result": the INSERT either adds the row or raises, and a raised
\* error fails the request ("Personalization failed. Please try again.").
CSave(r) ==
    /\ creq[r].pc = "save"
    /\ LET t == creq[r].table
           ch == creq[r].chapter_id
           v == creq[r].variant
           res == save_cached(t, ch, v, creq[r].content)
       IN /\ cacheTable' = [cacheTable EXCEPT ![t] = res.table]
          /\ lastPut' = [lastPut EXCEPT ![t][ch][v] =
                 [made |-> TRUE, ok |-> res.ok, content |-> creq[r].content]]
          /\ creq' = [creq EXCEPT ![r] =
                 [@ EXCEPT !.pc = IF res.ok THEN "done" ELSE "failed"]]

CacheNext ==
    \/ \E r \in 1..CacheReqs, t \in CacheTables, ch \in Chapters, v \in AllVariants :
          CStart(r, t, ch, v) /\ UNCHANGED <<govVars, chatVars, askVars, otherVars>>
    \/ \E r \in 1..CacheReqs : CLookup(r) /\ UNCHANGED <<govVars, chatVars, askVars, otherVars>>
    \/ \E r \in 1..CacheReqs, c \in Contents : CGenerate(r, c) /\ UNCHANGED <<govVars, chatVars, askVars, otherVars>>
    \/ \E r \in 1..CacheReqs : CGenerateFail(r) /\ UNCHANGED <<govVars, chatVars, askVars, otherVars>>
    \/ \E r \in 1..CacheReqs : CSave(r) /\ UNCHANGED <<govVars, chatVars, askVars, otherVars>>

\* --------------------------------------------------------- caches: claims
\* C5: a get after a successful put returns exactly the answer put, and a
\* repeated put with the same key succeeds and leaves exactly one entry for
\* the key, holding the value put (it does not fail, duplicate or lose it).
C5_CacheIdempotence ==
    \A t \in CacheTables, ch \in Chapters, v \in AllVariants :
        lastPut[t][ch][v].made =>
            /\ lastPut[t][ch][v].ok
            /\ Cardinality(RowsFor(cacheTable[t], ch, v)) = 1
            /\ get_cached(t, ch, v) = lastPut[t][ch][v].content

\* C7: when two requests with the same key both missed the cache, both
\* computed and both wrote, the cache holds exactly one entry for the key,
\* equal to one of the two written answers, and neither request failed.
C7_ConcurrentWriters ==
    \A r1, r2 \in 1..CacheReqs :
        ( /\ r1 # r2
          /\ creq[r1].pc \in {"done", "failed"} /\ creq[r2].pc \in {"done", "failed"}
          /\ ~creq[r1].cached /\ ~creq[r2].cached
          /\ creq[r1].content # NoContent /\ creq[r2].content # NoContent
          /\ creq[r1].table = creq[r2].table
          /\ creq[r1].chapter_id = creq[r2].chapter_id
          /\ creq[r1].variant = creq[r2].variant )
        => /\ Cardinality(RowsFor(cacheTable[creq[r1].table],
                                   creq[r1].chapter_id, creq[r1].variant)) = 1
           /\ get_cached(creq[r1].table, creq[r1].chapter_id, creq[r1].variant)
                  \in {creq[r1].content, creq[r2].content}
           /\ creq[r1].pc = "done" /\ creq[r2].pc = "done"

\* ========================================================== ChatBot widget
\* Text is a sequence of characters.
IsSpace(c) == c = " "

RECURSIVE TrimLeft(_)
TrimLeft(t) == IF t # <<>> /\ IsSpace(Head(t)) THEN TrimLeft(Tail(t)) ELSE t

RECURSIVE TrimRight(_)
TrimRight(t) ==
    IF t # <<>> /\ IsSpace(t[Len(t)]) THEN TrimRight(SubSeq(t, 1, Len(t) - 1)) ELSE t

trimNothing(t) == t

\* String.prototype.trim
trim(t) == TrimRight(TrimLeft(t))

QuestionInputs == {<<>>, <<" ">>, <<"a">>, <<" ", "A", " ">>}

GenericFailure == "Failed to get response from AI. Is the backend running?"
RateLimitDetail == "Too many requests. Please wait."
BusyDetail == "AI service is busy. Please retry in a moment."
JsonOfResult == "JSON.stringify(result)"
Answers == {"", "answer"}

NoFetch == [state |-> "none", status |-> 0, answer |-> "", detail |-> "",
            retry_after_seconds |-> 0]

ChatInit ==
    /\ question = <<>>
    /\ response = ""
    /\ loading = FALSE
    /\ error = ""
    /\ chatFetch = NoFetch
    /\ lastReply = NoFetch

\* onChange of the textarea (disabled while loading).
setQuestion(t) ==
    /\ ~loading
    /\ question' = t
    /\ UNCHANGED <<response, loading, error, chatFetch, lastReply>>

\* handleSubmit up to the await of api.chat: the submit button is disabled
\* while loading or while the question is blank.
handleSubmit ==
    /\ ~loading
    /\ trim(question) # <<>>
    /\ loading' = TRUE
    /\ error' = ""
    /\ response' = ""
    /\ chatFetch' = [NoFetch EXCEPT !.state = "sent"]
    /\ lastReply' = NoFetch
    /\ UNCHANGED question

\* POST /api/chat/question on the server.  api.chat sends no Authorization
\* header, so the question is counted under the shared anonymous identity.
\* A denied request is answered 429 with retry_after_seconds; an admitted
\* one with an answer or, when generation is unavailable, with a 500.
ChatServe(outcome, a) ==
    /\ chatFetch.state = "sent"
    /\ Decide(Anonymous, "question")
    /\ LET d == admit(Anonymous, "question") IN
       chatFetch' =
           IF ~d.allowed
           THEN [NoFetch EXCEPT !.state = "replied", !.status = 429,
                                !.detail = RateLimitDetail,
                                !.retry_after_seconds = d.retry_after]
           ELSE IF outcome = "answer"
           THEN [NoFetch EXCEPT !.state = "replied", !.status = 200, !.answer = a]
           ELSE [NoFetch EXCEPT !.state = "replied", !.status = 500, !.detail = BusyDetail]
    /\ UNCHANGED <<question, response, loading, error, lastReply>>

\* The rest of api.chat and of handleSubmit once the reply is there: a
\* non-ok status throws Error(error.detail || 'Chat request failed'), and
\* the catch block shows one fixed message for whatever was thrown.
ChatDeliver ==
    /\ chatFetch.state = "replied"
    /\ IF chatFetch.status = 200
       THEN /\ response' = IF chatFetch.answer # "" THEN chatFetch.answer ELSE JsonOfResult
            /\ error' = error
       ELSE /\ error' = GenericFailure
            /\ response' = response
    /\ loading' = FALSE
    /\ lastReply' = chatFetch
    /\ chatFetch' = NoFetch
    /\ UNCHANGED question

\* fetch rejects (backend not reachable): the catch block runs.
ChatNetworkError ==
    /\ chatFetch.state = "sent"
    /\ error' = GenericFailure
    /\ loading' = FALSE
    /\ lastReply' = [NoFetch EXCEPT !.state = "rejected"]
    /\ chatFetch' = NoFetch
    /\ UNCHANGED <<question, response>>

ChatNext ==
    \/ \E t \in QuestionInputs : setQuestion(t) /\ UNCHANGED <<govVars, cacheVars, askVars, otherVars>>
    \/ handleSubmit /\ UNCHANGED <<govVars, cacheVars, askVars, otherVars>>
    \/ \E o \in {"answer", "busy"}, a \in Answers :
          ChatServe(o, a) /\ UNCHANGED <<now, ticks, pending, load, cacheVars, askVars, otherVars>>
    \/ ChatDeliver /\ UNCHANGED <<govVars, cacheVars, askVars, otherVars>>
    \/ ChatNetworkError /\ UNCHANGED <<govVars, cacheVars, askVars, otherVars>>

\* -------------------------------------------------------- ChatBot: claims
\* C10: a rate-limit denial reaches the caller as a structured response
\* with a positive retry_after, and the user whose question was denied is
\* shown the rate-limit outcome, not the generic failure message.
C10_RateLimitedSurfaced ==
    lastReply.status = 429 =>
        /\ lastReply.retry_after_seconds > 0
        /\ error = RateLimitDetail
        /\ error # GenericFailure

AllBlank(t) == \A i \in 1..Len(t) : t[i] = " "

\* C28 - ChatBot state: loading is true exactly while a request is in
\* flight, a request starts only when none is in flight, response and error
\* are never both non-empty, both are empty while the request is in flight
\* and exactly one is non-empty once it has completed; while the question is
\* blank no step other than typing changes the ChatBot's state.
C28_ChatBotState ==
    /\ [](/\ (loading <=> chatFetch.state # "none")
          /\ ~(response # "" /\ error # "")
          /\ loading => (response = "" /\ error = "")
          /\ (~loading /\ lastReply.state # "none")
                => (response # "" \/ error # ""))
    /\ [][/\ (chatFetch'.state = "sent" /\ chatFetch' # chatFetch)
                => (chatFetch.state = "none" /\ ~loading)
          /\ (AllBlank(question) /\ question' = question)
                => <<response, loading, error, chatFetch>>' =
                      <<response, loading, error, chatFetch>>]_vars

\* A question was answered, and the visitor has since typed a blank one.
C28_Witness ==
    /\ lastReply.status = 200 /\ response # "" /\ error = "" /\ ~loading
    /\ question = <<" ">>

\* ============================================================ RAG pipeline
Lower(c) == IF c = "A" THEN "a" ELSE c

LowerCase(t) == [i \in 1..Len(t) |-> Lower(t[i])]

RECURSIVE CollapseWs(_)
CollapseWs(t) ==
    IF Len(t) < 2 THEN t
    ELSE IF IsSpace(t[1]) /\ IsSpace(t[2]) THEN CollapseWs(Tail(t))
    ELSE <<Head(t)>> \o CollapseWs(Tail(t))

NormalizeRaw(t) == t

\* The normalization of the question text: lowercase, trim, collapse
\* whitespace.
normalize(t) == CollapseWs(trim(LowerCase(t)))

Code(c) == CASE c = "a" -> 1 [] c = "A" -> 2 [] c = "b" -> 3 [] OTHER -> 4

RECURSIVE hash(_)
hash(t) == IF t = <<>> THEN 0 ELSE (Code(Head(t)) + 3 * hash(Tail(t))) % 7

\* Fingerprint: normalized question, plus a hash of selected_text if present.
fingerprint(q, sel) ==
    [question |-> normalize(q), selected |-> IF sel = <<>> THEN -1 ELSE hash(sel)]

Questions == {<<"A", " ", " ", "b">>, <<"a", " ", "b">>}
SelInputs == {<<>>, <<"b">>}
Fingerprints == {fingerprint(q, sel) : q \in Questions, sel \in SelInputs}

\* The (question, selected_text) pairs asked: the same question in two
\* spellings without selected text, and once with selected text.
Asks == {a \in Questions \X SelInputs : a[2] = <<>> \/ a[1] = <<"a", " ", "b">>}

\* The Chunk Store: passages with their provenance metadata.
Corpus ==
    <<[chapter_id |-> "neural-networks", section_title |-> "backprop",
       position |-> 1, tokens |-> 1000],
      [chapter_id |-> "neural-networks", section_title |-> "backprop",
       position |-> 1, tokens |-> 1000],
      [chapter_id |-> "neural-networks", section_title |-> "gradient",
       position |-> 2, tokens |-> 1000],
      [chapter_id |-> "ros", section_title |-> "nodes",
       position |-> 1, tokens |-> 500]>>

\* Nearest-neighbour answers of the Chunk Store, by descending score.
NeighbourLists ==
    { <<>>,
      <<[id |-> 4, score |-> 65]>>,
      <<[id |-> 1, score |-> 91], [id |-> 3, score |-> 85], [id |-> 4, score |-> 72]>>,
      <<[id |-> 1, score |-> 91], [id |-> 2, score |-> 85], [id |-> 4, score |-> 72]>> }

AboveThreshold(n, threshold) == n.score >= threshold

\* retrieve: filter by threshold, truncate to top_k.
retrieve(neighbours, top_k, threshold) ==
    LET above == SelectSeq(neighbours, LAMBDA n : AboveThreshold(n, threshold))
    IN SubSeq(above, 1, IF Len(above) < top_k THEN Len(above) ELSE top_k)

TokenCount(t) == Len(t)

\* Drop passages whose chapter_id + position was already seen.
RECURSIVE Dedup(_, _)
Dedup(r, seen) ==
    IF r = <<>> THEN <<>>
    ELSE LET key == <<Corpus[Head(r).id].chapter_id, Corpus[Head(r).id].position>>
         IN IF key \in seen THEN Dedup(Tail(r), seen)
            ELSE <<Head(r).id>> \o Dedup(Tail(r), seen \cup {key})

RECURSIVE FillSkipping(_, _)
FillSkipping(ids, room) ==
    IF ids = <<>> THEN <<>>
    ELSE IF Corpus[Head(ids)].tokens > room THEN FillSkipping(Tail(ids), room)
    ELSE <<Head(ids)>> \o FillSkipping(Tail(ids), room - Corpus[Head(ids)].tokens)

\* Whole passages in order while they fit; stop at the first that does not.
RECURSIVE Fill(_, _)
Fill(ids, room) ==
    IF ids = <<>> \/ Corpus[Head(ids)].tokens > room THEN <<>>
    ELSE <<Head(ids)>> \o Fill(Tail(ids), room - Corpus[Head(ids)].tokens)

RECURSIVE SumTokens(_)
SumTokens(ids) ==
    IF ids = <<>> THEN 0 ELSE Corpus[Head(ids)].tokens + SumTokens(Tail(ids))

\* An assembler that fills what the previous call left of a shared budget.
assembleOnSharedBudget(retrieval, selected_text, budget_tokens) ==
    LET used == IF asm = <<>> THEN 0 ELSE asm[Len(asm)].out.token_count
        room == budget_tokens - TokenCount(selected_text) - used
        ps == Fill(Dedup(retrieval, {}), IF room > 0 THEN room ELSE 0)
    IN IF TokenCount(selected_text) > budget_tokens
       THEN [selected |-> SubSeq(selected_text, 1, budget_tokens),
             passages |-> <<>>, token_count |-> budget_tokens]
       ELSE [selected |-> selected_text, passages |-> ps,
             token_count |-> TokenCount(selected_text) + SumTokens(ps)]

\* assemble(retrieval, selected_text, budget_tokens) -> AssembledContext
assemble(retrieval, selected_text, budget_tokens) ==
    IF selected_text # <<>> /\ TokenCount(selected_text) > budget_tokens
    THEN [selected |-> SubSeq(selected_text, 1, budget_tokens),
          passages |-> <<>>, token_count |-> budget_tokens]
    ELSE LET ps == Fill(Dedup(retrieval, {}), budget_tokens - TokenCount(selected_text))
         IN [selected |-> selected_text, passages |-> ps,
             token_count |-> TokenCount(selected_text) + SumTokens(ps)]

NoContext == [selected |-> <<>>, passages |-> <<>>, token_count |-> 0]

\* The (chapter_id, section_title) pairs a context can be cited for.
ContextPairs(ctx) ==
    {<<Corpus[ctx.passages[i]].chapter_id, Corpus[ctx.passages[i]].section_title>> :
        i \in 1..Len(ctx.passages)}

FallbackText == "I don't have this information in the book."
GeneratedText == "generated answer"
NoText == ""

Refusal == [text |-> FallbackText, citations |-> {}, grounded |-> "refused-insufficient-context"]
NoAnswer == [text |-> NoText, citations |-> {}, grounded |-> "none"]

\* What the model may send back: any citations, traceable or not, or the
\* "insufficient context" signal.
CiteChoices ==
    { {},
      {<<"neural-networks", "backprop">>},
      {<<"ros", "nodes">>},
      {<<"neural-networks", "backprop">>, <<"ros", "nodes">>},
      {<<"neural-networks", "hallucinated">>},
      {<<"neural-networks", "backprop">>, <<"neural-networks", "hallucinated">>} }

GenResponses ==
    {[text |-> GeneratedText, citations |-> c, insufficient |-> FALSE] : c \in CiteChoices}
        \cup {[text |-> FallbackText, citations |-> {}, insufficient |-> TRUE]}

TraceableAll(ctx, citations) == citations

\* The citations of a response that are traceable to the context.
Traceable(ctx, citations) == citations \cap ContextPairs(ctx)

ClassifyNoDowngrade(valid, insufficient) ==
    IF insufficient THEN "refused-insufficient-context" ELSE "answered"

Classify(valid, insufficient) ==
    IF insufficient \/ valid = {} THEN "refused-insufficient-context" ELSE "answered"

\* Validation of the parsed model response against the context.
validate(ctx, resp) ==
    LET valid == Traceable(ctx, resp.citations)
        g == Classify(valid, resp.insufficient)
    IN IF g = "answered"
       THEN [text |-> resp.text, citations |-> valid, grounded |-> g]
       ELSE Refusal

ShortCircuitNever(ctx) == FALSE

\* The Answerer answers without the model when the context holds no
\* retrieved passage.
ShortCircuit(ctx) == ctx.passages = <<>>

RetryAllowedOnceMore(retries) == retries <= MaxRetries

RetryAllowed(retries) == retries < MaxRetries

RECURSIVE Pow2(_)
Pow2(n) == IF n = 0 THEN 1 ELSE 2 * Pow2(n - 1)

\* Delay before the n-th retry: 1s, 2s, 4s.
Backoff(n) == BaseDelay * Pow2(n - 1)

Miss == [answer |-> NoAnswer, writer |-> 0]

\* get(fingerprint) -> Answer | Miss
get(fp) == ragCache[fp]

\* The user asking in this model.
Asker == "u1"

NoWarning == ""
\* What the user sees when the chat history could not be saved.
HistoryWarning == "Could not save chat history."

AskIdle ==
    [pc |-> "idle", question |-> <<>>, selected |-> <<>>, outcome |-> "none",
     retry_after |-> 0, nRetrieved |-> -1, context |-> NoContext,
     stripped |-> FALSE, answer |-> NoAnswer, genCalls |-> 0, retries |-> 0,
     delay |-> 0, after |-> {}, admitted |-> "none", ops |-> <<>>,
     warning |-> NoWarning, reported |-> {}]

AllWorlds ==
    [neighbours : NeighbourLists, failures : 0..(MaxRetries + 1),
     storeUp : BOOLEAN, cacheUp : BOOLEAN, logUp : BOOLEAN,
     cancels : BOOLEAN, timePasses : BOOLEAN]

\* Every service healthy, an index answer with more than the budget holds.
Nominal ==
    [neighbours |-> <<[id |-> 1, score |-> 91], [id |-> 3, score |-> 85],
                      [id |-> 4, score |-> 72]>>,
     failures |-> 0, storeUp |-> TRUE, cacheUp |-> TRUE, logUp |-> TRUE,
     cancels |-> FALSE, timePasses |-> FALSE]

\* The worlds explored: at most one service departs from the nominal one.
Worlds ==
    {w \in AllWorlds :
        Cardinality({f \in DOMAIN Nominal : w[f] # Nominal[f]}) <= 1}

QuietWorld ==
    [neighbours |-> <<>>, failures |-> 0, storeUp |-> TRUE, cacheUp |-> TRUE,
     logUp |-> TRUE, cancels |-> FALSE, timePasses |-> FALSE]

AskInit(w) ==
    /\ ask = [r \in 1..AskReqs |-> AskIdle]
    /\ ragCache = [fp \in Fingerprints |-> Miss]
    /\ ilog = {}
    /\ world = w

\* The answer is committed: put into the cache (insert-or-overwrite) and
\* appended to the interaction log.  Either write may fail; neither failure
\* fails the request.  A failed write is reported to operational monitoring;
\* when the history could not be saved the response also carries a warning
\* for the user.
Finalize(r, req) ==
    /\ ask' = [ask EXCEPT ![r] =
           [req EXCEPT !.pc = "done", !.outcome = "answer",
                       !.ops = @ \o <<"cache-write", "log-write">>,
                       !.warning = IF world.logUp THEN NoWarning ELSE HistoryWarning,
                       !.reported =
                           (IF world.cacheUp THEN {} ELSE {"CacheUnavailable"})
                               \cup (IF world.logUp THEN {} ELSE {"LogWriteFailure"})]]
    /\ ragCache' = IF world.cacheUp
                   THEN [ragCache EXCEPT ![fingerprint(req.question, req.selected)] =
                            [answer |-> req.answer, writer |-> r]]
                   ELSE ragCache
    /\ ilog' = IF world.logUp
               THEN ilog \cup {[user_id |-> Asker, question |-> req.question,
                                  answer_text |-> req.answer.text,
                                  citations |-> req.answer.citations, req |-> r]}
               ELSE ilog

ProceedsAlways(d) == TRUE

\* The limits are checked before the request is processed: only an Allowed
\* request enters the pipeline.
Proceeds(d) == d.allowed

\* ask(question, selected_text, user_id) arrives: admission, then the cache
\* lookup.  A denied request ends here; a hit is answered from the cache.
AskArrive(r, q, sel) ==
    /\ ask[r].pc = "idle"
    /\ \A x \in 1..(r - 1) : ask[x].pc # "idle"
    /\ Decide(Asker, "question")
    /\ LET d == admit(Asker, "question")
           e == IF world.cacheUp THEN get(fingerprint(q, sel)) ELSE Miss
           req == [AskIdle EXCEPT !.question = q, !.selected = sel,
                                  !.after = {x \in 1..AskReqs : ask[x].pc = "done"},
                                  !.admitted = IF d.allowed THEN "Allowed" ELSE "Denied",
                                  !.ops = <<"admit">>]
       IN ask' = [ask EXCEPT ![r] =
              IF ~Proceeds(d)
              THEN [req EXCEPT !.pc = "done", !.outcome = "RateLimited",
                               !.retry_after = d.retry_after]
              ELSE IF e # Miss
              THEN [req EXCEPT !.pc = "done", !.outcome = "cache-hit",
                               !.answer = e.answer, !.ops = @ \o <<"lookup">>]
              ELSE [req EXCEPT !.pc = "retrieving", !.ops = @ \o <<"lookup">>]]
    /\ UNCHANGED <<ragCache, ilog, world>>

\* The Chunk Store has answered: retrieve and assemble.  With no retrieved
\* passage in the context the Answerer refuses without calling the model.
AskRetrieved(r) ==
    /\ ask[r].pc = "retrieving"
    /\ world.storeUp
    /\ LET res == retrieve(world.neighbours, TopK, Threshold)
           ctx == assemble(res, ask[r].selected, ContextBudget)
           req == [ask[r] EXCEPT !.nRetrieved = Len(res), !.context = ctx,
                                 !.ops = @ \o <<"retrieve", "assemble">>]
       IN IF ShortCircuit(ctx)
          THEN Finalize(r, [req EXCEPT !.answer = Refusal]) /\ UNCHANGED world
          ELSE /\ ask' = [ask EXCEPT ![r] = [req EXCEPT !.pc = "generating"]]
               /\ UNCHANGED <<ragCache, ilog, world>>

\* The Chunk Store is unreachable or timed out.
AskRetrieveFail(r) ==
    /\ ask[r].pc = "retrieving"
    /\ ~world.storeUp
    /\ ask' = [ask EXCEPT ![r] = [@ EXCEPT !.pc = "done", !.outcome = "RetrievalUnavailable",
                                           !.ops = @ \o <<"retrieve">>]]
    /\ UNCHANGED <<ragCache, ilog, world>>

\* A generation call returns a response: validate, classify, commit.
AskGenerated(r, resp) ==
    /\ ask[r].pc = "generating"
    /\ world.failures = 0
    /\ UNCHANGED world
    /\ Finalize(r, [ask[r] EXCEPT !.genCalls = @ + 1,
                                  !.ops = @ \o <<"generate">>,
                                  !.stripped = (Traceable(ask[r].context, resp.citations)
                                                    # resp.citations),
                                  !.answer = validate(ask[r].context, resp)])

\* A generation call fails: retry after the backoff delay, or give up with
\* GenerationUnavailable once the retries are used up.
AskGenError(r) ==
    /\ ask[r].pc = "generating"
    /\ world.failures > 0
    /\ world' = [world EXCEPT !.failures = @ - 1]
    /\ ask' = [ask EXCEPT ![r] =
           IF RetryAllowed(ask[r].retries)
           THEN [@ EXCEPT !.genCalls = @ + 1, !.retries = @ + 1,
                          !.delay = Backoff(ask[r].retries + 1),
                          !.ops = @ \o <<"generate">>]
           ELSE [@ EXCEPT !.genCalls = @ + 1, !.pc = "done",
                          !.outcome = "GenerationUnavailable",
                          !.ops = @ \o <<"generate">>]]
    /\ UNCHANGED <<ragCache, ilog>>

RolledBack(w) == [w EXCEPT !.count = @ - 1]

\* The usage window of a request that was admitted and then cancelled: the
\* admission stays counted.
AfterCancel(w) == w

\* The caller disconnects or times out while the request is in flight: the
\* in-flight call is cancelled, nothing is returned, cached or logged.
AskCancel(r) ==
    /\ world.cancels
    /\ ask[r].pc \in {"retrieving", "generating"}
    /\ ask' = [ask EXCEPT ![r] = [@ EXCEPT !.pc = "done", !.outcome = "Cancelled"]]
    /\ usage' = [usage EXCEPT ![Asker]["question"] = AfterCancel(@)]
    /\ UNCHANGED <<ragCache, ilog, world>>

\* An hour passes between two requests.
AskTick ==
    /\ world.timePasses
    /\ \A r \in 1..AskReqs : ask[r].pc \in {"idle", "done"}
    /\ Tick(HourTicks)
    /\ UNCHANGED askVars

AskOther == <<now, ticks, pending, load, cacheVars, chatVars, otherVars>>

AskNext ==
    \/ \E r \in 1..AskReqs, a \in Asks :
          AskArrive(r, a[1], a[2]) /\ UNCHANGED AskOther
    \/ \E r \in 1..AskReqs :
          AskRetrieved(r) /\ UNCHANGED <<govVars, cacheVars, chatVars, otherVars>>
    \/ \E r \in 1..AskReqs : AskRetrieveFail(r) /\ UNCHANGED <<govVars, cacheVars, chatVars, otherVars>>
    \/ \E r \in 1..AskReqs, resp \in GenResponses :
          AskGenerated(r, resp) /\ UNCHANGED <<govVars, cacheVars, chatVars, otherVars>>
    \/ \E r \in 1..AskReqs : AskGenError(r) /\ UNCHANGED <<govVars, cacheVars, chatVars, otherVars>>
    \/ \E r \in 1..AskReqs :
          AskCancel(r) /\ UNCHANGED <<now, ticks, pending, admitted, calls, lastResult,
                                       load, cacheVars, chatVars, otherVars>>
    \/ AskTick /\ UNCHANGED <<cacheVars, chatVars, otherVars>>

\* ------------------------------------------------------- pipeline claims
Slots == 1..AskReqs

\* The request of slot r has produced an Answer by a generation call.
Generated(r) == ask[r].outcome = "answer" /\ ask[r].genCalls > 0

\* C1 - grounding: every Answer classified answered, as returned by the
\* request that generated it and as stored in the cache by that request,
\* cites only (chapter_id, section_title) pairs of passages present in the
\* AssembledContext supplied to that request's generation call, whatever
\* citations the model returned.
C1_Grounding ==
    /\ \A r \in Slots :
          (ask[r].outcome = "answer" /\ ask[r].answer.grounded = "answered")
              => ask[r].answer.citations \subseteq ContextPairs(ask[r].context)
    /\ \A fp \in Fingerprints :
          ragCache[fp].answer.grounded = "answered"
              => ragCache[fp].answer.citations
                     \subseteq ContextPairs(ask[ragCache[fp].writer].context)

\* An answered Answer whose model response cited a pair outside the context.
C1_Witness ==
    \E r \in Slots :
        /\ Generated(r) /\ ask[r].stripped
        /\ ask[r].answer.grounded = "answered"
        /\ ask[r].context.passages # <<>>

\* C2 - empty retrieval: a request whose retrieval returned zero passages
\* above the threshold is answered with the fixed refusal, and the
\* generation backend is invoked zero times for it, with or without
\* selected text.
C2_EmptyRetrieval ==
    \A r \in Slots :
        ask[r].nRetrieved = 0
            => /\ ask[r].pc = "done"
               /\ ask[r].outcome = "answer"
               /\ ask[r].answer.grounded = "refused-insufficient-context"
               /\ ask[r].answer.text = FallbackText
               /\ ask[r].answer.citations = {}
               /\ ask[r].genCalls = 0

\* Nothing above the threshold although the index had a neighbour, for a
\* question that came with selected text.
C2_Witness ==
    \E r \in Slots :
        /\ ask[r].nRetrieved = 0
        /\ world.neighbours # <<>>
        /\ ask[r].selected # <<>>
        /\ ask[r].pc = "done"

SameNormalizedText(a, b) ==
    CollapseWs(trim(LowerCase(a))) = CollapseWs(trim(LowerCase(b)))

\* Slot b was issued after slot a had completed with an answer, with the
\* same normalized text and no selected text.
BackToBack(a, b) ==
    /\ a \in ask[b].after
    /\ ask[a].outcome \in {"answer", "cache-hit"}
    /\ ask[a].selected = <<>> /\ ask[b].selected = <<>>
    /\ SameNormalizedText(ask[a].question, ask[b].question)

ServedFromCache(b) == ask[b].outcome = "cache-hit" /\ ask[b].genCalls = 0

C8_CitationValidation ==
    \A r \in Slots :
        /\ Generated(r) =>
              /\ ask[r].answer.citations \cap
                     (UNION CiteChoices \ ContextPairs(ask[r].context)) = {}
              /\ ask[r].answer.grounded = "answered" => ask[r].answer.citations # {}
              /\ ask[r].answer.grounded # "answered" => ask[r].answer = Refusal
        /\ ask[r].stripped => ask[r].outcome = "answer"

\* A response all of whose citations were stripped, downgraded to refusal.
C8_Witness ==
    \E r \in Slots :
        /\ Generated(r) /\ ask[r].stripped
        /\ ask[r].answer = Refusal

\* C9 - generation errors: at most 3 retries, delayed 1s, 2s, 4s; a request
\* fails with GenerationUnavailable exactly when the first call and all 3
\* retries failed, and such a request returns no answer text, has written
\* no cache entry and no log row.
C9_RetryThenUnavailable ==
    \A r \in Slots :
        /\ ask[r].retries <= MaxRetries
        /\ ask[r].retries > 0 => ask[r].delay = <<1, 2, 4>>[ask[r].retries]
        /\ ask[r].pc = "generating" => ask[r].genCalls = ask[r].retries
        /\ Generated(r) => ask[r].genCalls = ask[r].retries + 1
        /\ ask[r].outcome = "GenerationUnavailable" =>
              /\ ask[r].pc = "done"
              /\ ask[r].retries = MaxRetries
              /\ ask[r].genCalls = MaxRetries + 1
              /\ ask[r].answer = NoAnswer
              /\ \A fp \in Fingerprints : ragCache[fp].writer # r
              /\ \A row \in ilog : row.req # r

\* A request given up after the retries, beside the cache and log stores
\* that were reachable.
C9_Witness ==
    \E r \in Slots :
        /\ ask[r].outcome = "GenerationUnavailable"
        /\ ask[r].delay = 4
        /\ world.cacheUp /\ world.logUp

PipelineOps ==
    {"lookup", "retrieve", "assemble", "generate", "cache-write", "log-write"}

\* C11 - admission before the pipeline: the first operation of every
\* request is admit; a cache lookup, retrieval, assembly, generation call,
\* cache write or log write of a request happens only after admit returned
\* Allowed for it; a request that admit denied performs none of them.
C11_AdmissionFirst ==
    \A r \in Slots :
        /\ (ask[r].pc = "idle") <=> (ask[r].ops = <<>>)
        /\ ask[r].ops # <<>> => ask[r].ops[1] = "admit"
        /\ \A i \in 1..Len(ask[r].ops) :
              ask[r].ops[i] \in PipelineOps => (i > 1 /\ ask[r].admitted = "Allowed")
        /\ ask[r].admitted = "Denied" =>
              /\ ask[r].ops = <<"admit">>
              /\ ask[r].outcome = "RateLimited"
              /\ ask[r].genCalls = 0 /\ ask[r].nRetrieved = -1
              /\ \A fp \in Fingerprints : ragCache[fp].writer # r
              /\ \A row \in ilog : row.req # r

\* A denied request next to one that was admitted and ran the pipeline to
\* its log write.
C11_Witness ==
    \E a \in Slots, b \in Slots :
        /\ ask[a].admitted = "Allowed" /\ Generated(a)
        /\ ask[a].ops[Len(ask[a].ops)] = "log-write"
        /\ ask[b].admitted = "Denied" /\ ask[b].pc = "done"

\* C12 - no rollback: in every step, whatever happens to admitted requests
\* (cancellation, retrieval or generation failure, cache or log failure),
\* the count of a (user, kind) does not decrease while its window stays the
\* same; the count drops only in a step that starts a new window, and only
\* when the old window had expired.
C12_NeverRolledBack ==
    [][\A u \in Identities, k \in Kinds :
          /\ usage'[u][k].window_start = usage[u][k].window_start
                => usage'[u][k].count >= usage[u][k].count
          /\ usage'[u][k].window_start # usage[u][k].window_start
                => /\ WindowExpired(usage[u][k], k)
                   /\ usage'[u][k].window_start = now
                   /\ usage'[u][k].count <= 1]_vars

\* A request cancelled during generation is still counted.
C12_Witness ==
    \E a \in Slots :
        /\ ask[a].outcome = "Cancelled"
        /\ ask[a].nRetrieved > 0
        /\ usage[Asker]["question"].count =
               Cardinality({r \in Slots : ask[r].admitted = "Allowed"})

\* C13 - log failure is not fatal: when an answer has been computed and
\* the log write fails, the request still completes with that answer, the
\* failure is reported to operational monitoring, and nothing about it is
\* shown to the caller.
C13_LogFailureNonFatal ==
    \A r \in Slots :
        (ask[r].outcome = "answer" /\ ~world.logUp) =>
            /\ ask[r].pc = "done"
            /\ ask[r].answer # NoAnswer
            /\ \A row \in ilog : row.req # r
            /\ "LogWriteFailure" \in ask[r].reported
            /\ ask[r].warning = NoWarning

\* The part of C13 that holds: the computed answer is returned although the
\* log write failed.
C13_AnswerStillReturned ==
    \A r \in Slots :
        (ask[r].outcome = "answer" /\ ~world.logUp) =>
            /\ ask[r].pc = "done"
            /\ ask[r].answer # NoAnswer
            /\ (ask[r].genCalls > 0 =>
                   \E resp \in GenResponses : ask[r].answer = validate(ask[r].context, resp))
            /\ \A row \in ilog : row.req # r
            /\ "LogWriteFailure" \in ask[r].reported

\* ====================================================== context assembler
\* The budgets assemble is called with: one smaller than a selected text,
\* one that leaves room for one passage but not two, and the default.
AssembleBudgets == {3, 1700, ContextBudget}

AssembleSelections == {<<>>, <<"b">>, <<"a", " ", "b", "b">>}

\* RetrievalResults as the Retriever produces them: above the threshold,
\* by descending score, at most TopK.
RetrievalResults ==
    {retrieve(n, TopK, Threshold) :
        n \in NeighbourLists \cup
               {<<[id |-> 4, score |-> 95], [id |-> 1, score |-> 91],
                  [id |-> 3, score |-> 85]>>}}

BlocksByScore(ctx) ==
    [i \in 1..Len(ctx.passages) |-> [kind |-> "passage", id |-> ctx.passages[i]]]
        \o (IF ctx.selected = <<>> THEN <<>>
            ELSE <<[kind |-> "selected", id |-> 0]>>)

\* The blocks of an AssembledContext in the order they are laid out: the
\* selected-text block, if any, then the passages.
Blocks(ctx) ==
    (IF ctx.selected = <<>> THEN <<>> ELSE <<[kind |-> "selected", id |-> 0]>>)
        \o [i \in 1..Len(ctx.passages) |-> [kind |-> "passage", id |-> ctx.passages[i]]]

\* One call of assemble, recorded with its arguments and its result.
AssembleCall(retrieval, selected_text, budget_tokens) ==
    /\ Len(asm) < MaxAsmCalls
    /\ asm' = Append(asm,
          [retrieval |-> retrieval, selected_text |-> selected_text,
           budget_tokens |-> budget_tokens,
           out |-> assemble(retrieval, selected_text, budget_tokens),
           blocks |-> Blocks(assemble(retrieval, selected_text, budget_tokens))])

AssembleNext ==
    \E r \in RetrievalResults, t \in AssembleSelections, b \in AssembleBudgets :
        AssembleCall(r, t, b)
            /\ UNCHANGED <<govVars, cacheVars, chatVars, askVars, spendVars, authVars,
                           quizVars, homeVars, dbVars>>

IsPrefix(a, b) == Len(a) <= Len(b) /\ a = SubSeq(b, 1, Len(a))

\* C14 - selected-text precedence: for every assemble call with non-empty
\* selected_text the first block of the AssembledContext is the selected
\* text (whole, or cut to the budget when it alone exceeds it), whatever the
\* retrieval scores; passages come only after it, and none is included
\* when the selected text alone exceeds the budget.
C14_SelectedTextFirst ==
    \A i \in 1..Len(asm) :
        asm[i].selected_text # <<>> =>
            /\ asm[i].blocks # <<>> /\ asm[i].blocks[1].kind = "selected"
            /\ \A j \in 2..Len(asm[i].blocks) : asm[i].blocks[j].kind = "passage"
            /\ asm[i].out.selected # <<>>
            /\ IsPrefix(asm[i].out.selected, asm[i].selected_text)
            /\ TokenCount(asm[i].selected_text) <= asm[i].budget_tokens
                  => asm[i].out.selected = asm[i].selected_text
            /\ TokenCount(asm[i].selected_text) > asm[i].budget_tokens
                  => /\ asm[i].out.passages = <<>>
                     /\ TokenCount(asm[i].out.selected) = asm[i].budget_tokens

\* Selected text followed by retrieved passages in one call, and selected
\* text that alone exceeds the budget, retrieval not empty, in another.
C14_Witness ==
    \E i \in 1..Len(asm), j \in 1..Len(asm) :
        /\ asm[i].selected_text # <<>> /\ Len(asm[i].out.passages) = 2
        /\ asm[j].retrieval # <<>>
        /\ TokenCount(asm[j].selected_text) > asm[j].budget_tokens

PassageKey(id) == <<Corpus[id].chapter_id, Corpus[id].position>>

\* C15 - without selected text the context is made of whole passages only:
\* the retrieved passages in score-descending order, duplicates of
\* chapter_id + position removed, up to but not including the first one
\* whose addition would exceed budget_tokens; token_count is the sum of the
\* included passages and never exceeds the budget.
C15_WholePassagesWithinBudget ==
    \A i \in 1..Len(asm) :
        asm[i].selected_text = <<>> =>
            LET d == Dedup(asm[i].retrieval, {})
                ps == asm[i].out.passages
                n == Len(ps)
            IN /\ asm[i].out.selected = <<>>
               /\ IsPrefix(ps, d)
               /\ \A x \in 1..n, y \in 1..n : x # y => PassageKey(ps[x]) # PassageKey(ps[y])
               /\ asm[i].out.token_count = SumTokens(ps)
               /\ asm[i].out.token_count <= asm[i].budget_tokens
               /\ n < Len(d) => SumTokens(SubSeq(d, 1, n + 1)) > asm[i].budget_tokens

\* Assembly stopped at a passage that did not fit although a later, smaller
\* one would have fitted.
C15_Witness ==
    \E i \in 1..Len(asm) :
        LET d == Dedup(asm[i].retrieval, {})
            n == Len(asm[i].out.passages)
        IN /\ asm[i].selected_text = <<>>
           /\ n >= 1 /\ n + 1 < Len(d)
           /\ Corpus[d[n + 2]].tokens <= asm[i].budget_tokens - asm[i].out.token_count

SameArguments(a, b) ==
    /\ a.retrieval = b.retrieval
    /\ a.selected_text = b.selected_text
    /\ a.budget_tokens = b.budget_tokens

NoSpend == [tokens |-> 0, signalled |-> FALSE, allowedOver |-> FALSE]

\* "remaining daily budget" of a user
RemainingDailyBudget(u) ==
    IF spend[u].tokens >= DailyTokenBudget THEN 0
    ELSE DailyTokenBudget - spend[u].tokens

\* The Governor accumulates the estimated token cost of a generation call;
\* exceeding the daily budget raises the soft signal.
RecordSpend(u, tokens) ==
    /\ spend[u].tokens <= DailyTokenBudget
    /\ spend' = [spend EXCEPT ![u] =
          [@ EXCEPT !.tokens = @ + tokens,
                    !.signalled = (spend[u].tokens + tokens > DailyTokenBudget)]]
    /\ UNCHANGED <<govVars, cacheVars, chatVars, askVars, asmVars, authVars, quizVars,
                   homeVars, dbVars>>

\* One admit call of the user for the kind of this behaviour's load.
BudgetAdmit(u) ==
    /\ Decide(u, load)
    /\ spend' = [spend EXCEPT ![u].allowedOver =
          @ \/ (admit(u, load).allowed /\ spend[u].tokens > DailyTokenBudget)]
    /\ UNCHANGED <<now, ticks, pending, load, cacheVars, chatVars, askVars, asmVars,
                   authVars, quizVars, homeVars, dbVars>>

BudgetNext ==
    \/ \E u \in Users : BudgetAdmit(u)
    \/ \E u \in Users : RecordSpend(u, ContextBudget)

\* C17 - the token budget is a soft signal: every admit call of a (user,
\* kind) whose count is below the request limit is Allowed, and every one
\* at the limit is Denied, whatever the accumulated token spend is; going
\* over the daily budget raises the signal and denies nothing.
C17_TokenBudgetSoft ==
    [][\A u \in Identities, k \in Kinds :
          <<usage[u][k], lastResult[u][k]>>' # <<usage[u][k], lastResult[u][k]>>
              => /\ lastResult'[u][k].made
                 /\ lastResult'[u][k].allowed
                        <=> (CurrentWindow(usage[u][k], k).count < Limit(k))]_vars

\* A request Allowed while the user was over the daily token budget and the
\* signal was up.
C17_Witness ==
    /\ spend[Asker].tokens > DailyTokenBudget
    /\ spend[Asker].signalled
    /\ spend[Asker].allowedOver
    /\ RemainingDailyBudget(Asker) = 0
    /\ lastResult[Asker][load].allowed

\* ================================================================= auth
Emails == {"a@example.com", "b@example.com"}
Passwords == {"secret", "securepass123"}
FullName == "Test User"
Undefined == "undefined"

PasswordLength(p) == IF p = "secret" THEN 6 ELSE 13

UniqueEmailOff(email) == FALSE

\* users.email is UNIQUE: a row with this email exists.
UniqueEmail(email) == \E i \in 1..Len(users.rows) : users.rows[i].email = email

hash_password(password) == <<"bcrypt", password>>

verify_password(plain_password, hashed_password) ==
    hashed_password = <<"bcrypt", plain_password>>

create_access_token(sub) == "jwt.sub=" \o ToString(sub)

\* JSON.stringify({ email })
JsonOfUser(email) == "{\"email\":\"" \o email \o "\"}"

\* DBService.create_user: INSERT INTO users ... RETURNING id.  The id
\* sequence advances whether or not the insert succeeds.
create_user(email, password_hash, name) ==
    IF UniqueEmail(email)
    THEN [raised |-> "UniqueViolationError", user_id |-> 0,
          table |-> [users EXCEPT !.nextval = @ + 1]]
    ELSE [raised |-> "none", user_id |-> users.nextval,
          table |-> [rows |-> Append(users.rows,
                                [id |-> users.nextval, email |-> email,
                                 password_hash |-> password_hash, name |-> name]),
                     nextval |-> users.nextval + 1]]

Reply(status, access_token, email, detail) ==
    [status |-> status, access_token |-> access_token, email |-> email,
     detail |-> detail]

\* POST /api/auth/signup: request validation (UserCreate), then the handler.
signup(email, password, name) ==
    IF PasswordLength(password) < MinPasswordLength \/ name = ""
    THEN [reply |-> Reply(422, Undefined, Undefined, "validation error"),
          table |-> users]
    ELSE LET c == create_user(email, hash_password(password), name) IN
         IF c.raised = "UniqueViolationError"
         THEN [reply |-> Reply(400, Undefined, Undefined, "Email already registered"),
               table |-> c.table]
         ELSE [reply |-> Reply(201, create_access_token(c.user_id), Undefined, Undefined),
               table |-> c.table]

get_user_by_email(email) ==
    {users.rows[i] : i \in {j \in 1..Len(users.rows) : users.rows[j].email = email}}

\* POST /api/auth/login
login(email, password) ==
    IF \A u \in get_user_by_email(email) : ~verify_password(password, u.password_hash)
    THEN Reply(401, Undefined, Undefined, "Invalid email or password")
    ELSE LET u == CHOOSE u \in get_user_by_email(email) :
                      verify_password(password, u.password_hash)
         IN Reply(200, create_access_token(u.id), Undefined, Undefined)

NoSignup == [pc |-> "idle", email |-> Undefined, password |-> Undefined,
             raced |-> FALSE, reply |-> Reply(0, Undefined, Undefined, Undefined)]
NoExchange == [kind |-> "none", state |-> "none",
               reply |-> Reply(0, Undefined, Undefined, Undefined)]

AuthInit ==
    /\ users = [rows |-> <<>>, nextval |-> 1]
    /\ signups = [s \in 1..SignupReqs |-> NoSignup]
    /\ authUI = [isOpen |-> TRUE, mode |-> "login", email |-> "", password |-> "",
                 fullName |-> "", error |-> "", loading |-> FALSE,
                 created |-> FALSE, onSuccess |-> Undefined, submits |-> 0]
    /\ authFetch = NoExchange
    /\ storage = [token |-> Undefined, user |-> Undefined]

NotHome == <<govVars, cacheVars, chatVars, askVars, asmVars, spendVars, quizVars, dbVars>>

NotAuth == <<NotHome, homeVars>>

\* Home.handleAuthSuccess, the AuthModal's onSuccess prop.
handleAuthSuccess(token, userData) == [isAuthenticated |-> TRUE, user |-> userData]

AuthStarted ==
    authUI.submits + Cardinality({s \in 1..SignupReqs : signups[s].pc # "idle"})

\* A client other than the AuthModal posts a signup.
ApiSignupSend(s, email, password) ==
    /\ signups[s].pc = "idle"
    /\ AuthStarted < SignupReqs
    /\ \A x \in 1..(s - 1) : signups[x].pc # "idle"
    /\ signups' = [signups EXCEPT ![s] =
          [@ EXCEPT !.pc = "sent", !.email = email, !.password = password,
                    !.raced = \E x \in 1..SignupReqs :
                                 signups[x].pc = "sent" /\ signups[x].email = email]]
    /\ UNCHANGED <<users, authUI, authFetch, storage, NotAuth>>

\* The signup handler runs for a directly posted request.
ApiSignupHandle(s) ==
    /\ signups[s].pc = "sent"
    /\ LET r == signup(signups[s].email, signups[s].password, FullName) IN
          /\ users' = r.table
          /\ signups' = [signups EXCEPT ![s] = [@ EXCEPT !.pc = "done", !.reply = r.reply]]
    /\ UNCHANGED <<authUI, authFetch, storage, NotAuth>>

\* The links under the form switch between login and register.
setMode(m) ==
    /\ authUI.isOpen /\ authFetch = NoExchange
    /\ authUI.mode # m
    /\ authUI' = [authUI EXCEPT !.mode = m]
    /\ UNCHANGED <<users, signups, authFetch, storage, NotAuth>>

\* AuthModal.handleSubmit up to its first await: the form fields hold what
\* the visitor typed (the browser enforces required and minLength), the
\* error is cleared, loading is set, api.login or api.register is called.
AuthSubmit(email, password) ==
    /\ authUI.isOpen /\ ~authUI.loading /\ authFetch = NoExchange
    /\ AuthStarted < SignupReqs
    /\ PasswordLength(password) >= FormMinLength
    /\ authUI' = [authUI EXCEPT !.email = email, !.password = password,
                                !.submits = @ + 1,
                                !.fullName = IF authUI.mode = "register" THEN FullName ELSE @,
                                !.error = "", !.loading = TRUE, !.created = FALSE,
                                !.onSuccess = Undefined]
    /\ authFetch' = [NoExchange EXCEPT
                        !.kind = IF authUI.mode = "login" THEN "login" ELSE "signup",
                        !.state = "sent"]
    /\ UNCHANGED <<users, signups, storage, NotAuth>>

\* The backend answers the AuthModal's request.
AuthServe ==
    /\ authFetch.state = "sent"
    /\ IF authFetch.kind = "signup"
       THEN LET r == signup(authUI.email, authUI.password, authUI.fullName) IN
              /\ users' = r.table
              /\ authFetch' = [authFetch EXCEPT !.state = "replied", !.reply = r.reply]
       ELSE /\ users' = users
            /\ authFetch' = [authFetch EXCEPT !.state = "replied",
                                 !.reply = login(authUI.email, authUI.password)]
    /\ UNCHANGED <<signups, authUI, storage, NotAuth>>

\* The JSON bodies a server can answer with: a Token, a user object, an
\* error with a detail, an error without one.
ServerReplies ==
    {Reply(200, create_access_token(1), Undefined, Undefined),
     Reply(201, Undefined, authUI.email, Undefined),
     Reply(401, Undefined, Undefined, "Invalid email or password"),
     Reply(500, Undefined, Undefined, Undefined)}

\* api.login and api.register hand back response.json() of whatever the
\* server answered, with any status.
AuthServeAny(reply) ==
    /\ authFetch.state = "sent"
    /\ authFetch' = [authFetch EXCEPT !.state = "replied", !.reply = reply]
    /\ UNCHANGED <<users, signups, authUI, storage, NotAuth>>

\* What setError shows for a reply without the expected field.
DetailOr(reply, fallback) == IF reply.detail # Undefined THEN reply.detail ELSE fallback

\* handleSubmit resumes after await api.register: with response.email it
\* goes on to log in; without, it shows response.detail or
\* 'Registration failed' and is finished.
AuthRegisterReply ==
    /\ authFetch.state = "replied" /\ authFetch.kind = "signup"
    /\ IF authFetch.reply.email # Undefined
       THEN /\ authFetch' = [NoExchange EXCEPT !.kind = "auto-login", !.state = "sent"]
            /\ authUI' = [authUI EXCEPT !.created = (authFetch.reply.status = 201)]
       ELSE /\ authFetch' = NoExchange
            /\ authUI' = [authUI EXCEPT
                   !.error = DetailOr(authFetch.reply, "Registration failed"),
                   !.loading = FALSE,
                   !.created = (authFetch.reply.status = 201)]
    /\ UNCHANGED <<users, signups, storage, NotAuth>>

\* handleSubmit resumes after await api.login, of the login mode or of the
\* automatic login after a registration: with an access_token the token and
\* the user are stored, onSuccess and onClose are called.
AuthLoginReply ==
    /\ authFetch.state = "replied" /\ authFetch.kind \in {"login", "auto-login"}
    /\ authFetch' = NoExchange
    /\ IF authFetch.reply.access_token # Undefined
       THEN /\ storage' = [token |-> authFetch.reply.access_token,
                           user |-> JsonOfUser(authUI.email)]
            /\ authUI' = [authUI EXCEPT !.loading = FALSE, !.isOpen = FALSE,
                             !.onSuccess = authFetch.reply.access_token]
            /\ home' = handleAuthSuccess(authFetch.reply.access_token,
                                         JsonOfUser(authUI.email))
       ELSE /\ storage' = storage
            /\ home' = home
            /\ authUI' = [authUI EXCEPT
                   !.loading = FALSE,
                   !.error = IF authFetch.kind = "login"
                             THEN DetailOr(authFetch.reply, "Login failed") ELSE @]
    /\ UNCHANGED <<users, signups, widgets, NotHome>>

\* fetch rejects (the backend cannot be reached): the catch block.
AuthNetworkError ==
    /\ authFetch.state = "sent"
    /\ authFetch' = NoExchange
    /\ authUI' = [authUI EXCEPT !.error = "Failed to fetch", !.loading = FALSE]
    /\ UNCHANGED <<users, signups, storage, NotAuth>>

\* The page opens the modal again.
AuthOpen ==
    /\ ~authUI.isOpen
    /\ authUI' = [authUI EXCEPT !.isOpen = TRUE]
    /\ UNCHANGED <<users, signups, authFetch, storage, NotAuth>>

AuthNext ==
    \/ \E s \in 1..SignupReqs, e \in Emails, p \in Passwords : ApiSignupSend(s, e, p)
    \/ \E s \in 1..SignupReqs : ApiSignupHandle(s)
    \/ \E m \in {"login", "register"} : setMode(m)
    \/ \E e \in Emails, p \in Passwords : AuthSubmit(e, p)
    \/ AuthServe
    \/ AuthRegisterReply
    \/ AuthLoginReply
    \/ AuthNetworkError
    \/ AuthOpen

\* The AuthModal against any server.
AuthModalNext ==
    \/ \E m \in {"login", "register"} : setMode(m)
    \/ \E e \in Emails, p \in Passwords : AuthSubmit(e, p)
    \/ \E reply \in ServerReplies : AuthServeAny(reply)
    \/ AuthRegisterReply
    \/ AuthLoginReply
    \/ AuthNetworkError
    \/ AuthOpen

\* C18 - sign-up logs the visitor in: once the AuthModal's registration
\* with a new email and valid data has created the account and
\* handleSubmit has finished, a token and a user are in localStorage and
\* onSuccess has been called.
C18_SignUpLogsIn ==
    (authUI.created /\ authFetch = NoExchange /\ ~authUI.loading)
        => /\ storage.token # Undefined
           /\ storage.user # Undefined
           /\ authUI.onSuccess # Undefined

SubmitSucceeded ==
    /\ authUI.onSuccess # Undefined
    /\ storage.token = authUI.onSuccess
    /\ storage.user # Undefined

\* C27 - outcomes of a submit: when a submit of the auth form has completed,
\* loading is false and either the submit succeeded (token and user stored,
\* onSuccess called) or a non-empty error is shown, never both and never
\* neither.
C27_SubmitEndsInOneOutcome ==
    (authUI.submits > 0 /\ authFetch = NoExchange)
        => /\ ~authUI.loading
           /\ SubmitSucceeded <=> authUI.error = ""

ValidSignup(s) ==
    signups[s].pc = "done" /\ PasswordLength(signups[s].password) >= MinPasswordLength

\* C19 - duplicate emails: no two rows of users share an email; a valid
\* signup for a registered email gets 400 'Email already registered', any
\* signup for a registered email is refused, and a refused signup adds no
\* row; of two valid signups with the same email at most one succeeds, and
\* the one handled while the email is not yet registered does succeed.
C19_DuplicateEmailRejected ==
    /\ [](/\ \A i, j \in 1..Len(users.rows) :
                i # j => users.rows[i].email # users.rows[j].email
          /\ \A s \in 1..SignupReqs :
                signups[s].pc = "done" =>
                   /\ signups[s].reply.status \in {201, 400, 422}
                   /\ ValidSignup(s) => signups[s].reply.status \in {201, 400}
                   /\ signups[s].reply.status = 400
                         => signups[s].reply.detail = "Email already registered"
                   /\ ValidSignup(s) => UniqueEmail(signups[s].email)
          /\ \A a, b \in 1..SignupReqs :
                (a # b /\ ValidSignup(a) /\ ValidSignup(b)
                       /\ signups[a].email = signups[b].email)
                   => ~(signups[a].reply.status = 201 /\ signups[b].reply.status = 201))
    /\ [][/\ Len(users'.rows) <= Len(users.rows) + 1
          /\ IsPrefix(users.rows, users'.rows)
          /\ \A s \in 1..SignupReqs :
                (signups[s].pc = "sent" /\ signups'[s].pc = "done")
                   => IF UniqueEmail(signups[s].email)
                      THEN signups'[s].reply.status # 201 /\ users'.rows = users.rows
                      ELSE ValidSignup(s)' <=> signups'[s].reply.status = 201]_vars

\* Two valid signups with the same email that were in flight together: one
\* got 201, the other 400.
C19_Witness ==
    \E a, b \in 1..SignupReqs :
        /\ a # b /\ ValidSignup(a) /\ ValidSignup(b)
        /\ signups[a].email = signups[b].email
        /\ signups[b].raced
        /\ signups[a].reply.status = 201 /\ signups[b].reply.status = 400
        /\ Len(users.rows) = 1

\* ============================================================ Home page
\* The page as it is after a first load with an empty localStorage: the
\* mount effect found no keys and opened the AuthModal.
HomeInit ==
    /\ home = [isAuthenticated |-> FALSE, user |-> Undefined]
    /\ widgets = [dateNow |-> 0, wire |-> <<>>]

\* The page is loaded again: Home and the AuthModal start from their
\* useState values and the mount effect reads localStorage.
HomeMount ==
    /\ authFetch = NoExchange
    /\ LET both == storage.token # Undefined /\ storage.user # Undefined IN
          /\ home' = [isAuthenticated |-> both,
                      user |-> IF both THEN storage.user ELSE Undefined]
          /\ authUI' = [authUI EXCEPT !.isOpen = ~both, !.mode = "login", !.email = "",
                                      !.password = "", !.fullName = "", !.error = "",
                                      !.loading = FALSE]
    /\ UNCHANGED <<users, signups, authFetch, storage, widgets, NotHome>>

handleLogoutKeepsKeys ==
    /\ home.isAuthenticated /\ home.user # Undefined
    /\ home' = [isAuthenticated |-> FALSE, user |-> Undefined]
    /\ authUI' = [authUI EXCEPT !.isOpen = TRUE]
    /\ UNCHANGED <<users, signups, authFetch, storage, widgets, NotHome>>

\* A click on Logout in the user bar.
handleLogout ==
    /\ home.isAuthenticated /\ home.user # Undefined
    /\ storage' = [token |-> Undefined, user |-> Undefined]
    /\ home' = [isAuthenticated |-> FALSE, user |-> Undefined]
    /\ authUI' = [authUI EXCEPT !.isOpen = TRUE]
    /\ UNCHANGED <<users, signups, authFetch, widgets, NotHome>>

\* The modal's close button or overlay: onClose.
AuthClose ==
    /\ authUI.isOpen
    /\ authUI' = [authUI EXCEPT !.isOpen = FALSE]
    /\ UNCHANGED <<users, signups, authFetch, storage, homeVars, NotHome>>

\* The widgets are rendered only while isAuthenticated.
WidgetsShown == home.isAuthenticated

Texts == {"Sensors", "Actuators"}
TargetLangs == {"ur"}
NoHeader == "none"
Bearer(token) == "Bearer " \o token
CustomId(t) == "custom-" \o ToString(t)

\* fetch(url, {headers, body}): the request goes on the wire.  The token
\* field notes what localStorage held for 'token' at that moment.
CanSend == WidgetsShown /\ Len(widgets.wire) < WidgetSends

Sent(request) ==
    [widgets EXCEPT !.wire = Append(@, [request EXCEPT !.token = storage.token])]

NoRequest ==
    [endpoint |-> "", authorization |-> NoHeader, chapter_id |-> Undefined,
     text |-> "", target_language |-> Undefined, token |-> Undefined]

\* api.chat(question): the only header is Content-Type.
chat(q) ==
    /\ CanSend
    /\ widgets' = Sent([NoRequest EXCEPT !.endpoint = "/api/chat/question", !.text = q])
    /\ UNCHANGED <<authVars, NotHome, home>>

\* Personalization.handlePersonalize up to its fetch.
handlePersonalize(text) ==
    /\ CanSend
    /\ widgets' = Sent([NoRequest EXCEPT !.endpoint = "/api/personalize/chapter",
                                         !.authorization = Bearer(storage.token),
                                         !.chapter_id = CustomId(widgets.dateNow),
                                         !.text = text])
    /\ UNCHANGED <<authVars, NotHome, home>>

\* Translation.handleTranslate up to its fetch.
handleTranslate(text, targetLang) ==
    /\ CanSend
    /\ widgets' = Sent([NoRequest EXCEPT !.endpoint = "/api/translate/chapter",
                                         !.authorization = Bearer(storage.token),
                                         !.chapter_id = CustomId(widgets.dateNow),
                                         !.text = text,
                                         !.target_language = targetLang])
    /\ UNCHANGED <<authVars, NotHome, home>>

\* A millisecond passes after a request was sent.
DateNowAdvance ==
    /\ widgets.dateNow < Len(widgets.wire)
    /\ widgets' = [widgets EXCEPT !.dateNow = @ + 1]
    /\ UNCHANGED <<authVars, NotHome, home>>

\* The home page with its AuthModal, the auth endpoints and the widgets.
HomeNext ==
    \/ \E m \in {"login", "register"} : setMode(m)
    \/ \E e \in {"a@example.com"}, p \in {"securepass123"} : AuthSubmit(e, p)
    \/ AuthServe
    \/ AuthRegisterReply
    \/ AuthLoginReply
    \/ AuthNetworkError
    \/ AuthOpen
    \/ AuthClose
    \/ HomeMount
    \/ handleLogout
    \/ \E q \in Texts : chat(q)
    \/ \E text \in Texts : handlePersonalize(text)
    \/ \E text \in Texts, targetLang \in TargetLangs : handleTranslate(text, targetLang)
    \/ DateNowAdvance

\* C24 - questions carry the user's identity: every request the ChatBot
\* has sent carries the stored token as its bearer token.
C24_ChatCarriesIdentity ==
    \A i \in 1..Len(widgets.wire) :
        widgets.wire[i].endpoint = "/api/chat/question"
            => widgets.wire[i].authorization = Bearer(widgets.wire[i].token)

\* C25 - same text, same cache key: two personalization requests, or two
\* translation requests with the same target language, sent with the same
\* text carry the same chapter_id.
C25_SameTextSameKey ==
    \A i, j \in 1..Len(widgets.wire) :
        (/\ widgets.wire[i].endpoint \in {"/api/personalize/chapter",
                                         "/api/translate/chapter"}
         /\ widgets.wire[i].endpoint = widgets.wire[j].endpoint
         /\ widgets.wire[i].text = widgets.wire[j].text
         /\ widgets.wire[i].target_language = widgets.wire[j].target_language)
            => widgets.wire[i].chapter_id = widgets.wire[j].chapter_id

KeysStored == storage.token # Undefined /\ storage.user # Undefined

\* C29 - widgets only while logged in: isAuthenticated, and so the
\* rendering of the widgets, implies that token and user are both stored;
\* every request of a widget was sent with a stored token; a step that
\* ends the authenticated state removes both keys and hides the widgets.
C29_WidgetsOnlyWhenLoggedIn ==
    /\ []((home.isAuthenticated \/ WidgetsShown) => KeysStored)
    /\ [](\A i \in 1..Len(widgets.wire) : widgets.wire[i].token # Undefined)
    /\ [][(home.isAuthenticated /\ ~home'.isAuthenticated)
            => (storage'.token = Undefined /\ storage'.user = Undefined
                  /\ ~WidgetsShown')]_vars

\* A visitor who logged in, used a widget and logged out.
C29_Witness ==
    /\ Len(widgets.wire) > 0
    /\ ~home.isAuthenticated /\ ~WidgetsShown
    /\ storage.token = Undefined /\ storage.user = Undefined
    /\ authUI.isOpen

\* ========================================================== database.py
\* _pool is None
None == 0

\* Pools are numbered in the order asyncpg.create_pool returns them.
DbInit ==
    db = [_pool |-> None, created |-> 0, closed |-> {},
          caller |-> [c \in 1..PoolCallers |-> [pc |-> "idle", pool |-> None]],
          closer |-> [pc |-> "idle", pool |-> None]]

NotDb == <<govVars, cacheVars, chatVars, askVars, asmVars, spendVars, authVars, quizVars,
          homeVars>>

\* get_db_pool up to its await: "if _pool is None" either goes on to
\* create_pool or falls through to "return _pool".
get_db_pool(c) ==
    /\ db.caller[c].pc = "idle"
    /\ db' = [db EXCEPT !.caller[c] =
                 IF db._pool = None
                 THEN [pc |-> "create_pool", pool |-> None]
                 ELSE [pc |-> "returned", pool |-> db._pool]]
    /\ UNCHANGED NotDb

\* await asyncpg.create_pool(...) completes: the new pool is assigned to
\* _pool and returned.
create_pool(c) ==
    /\ db.caller[c].pc = "create_pool"
    /\ LET new == db.created + 1 IN
          db' = [db EXCEPT !.created = new, !._pool = new,
                           !.caller[c] = [pc |-> "returned", pool |-> new]]
    /\ UNCHANGED NotDb

\* close_db_pool up to its await: "if _pool is not None", _pool.close().
close_db_pool ==
    /\ db.closer.pc = "idle"
    /\ db' = [db EXCEPT !.closer =
                 IF db._pool # None
                 THEN [pc |-> "close", pool |-> db._pool]
                 ELSE [pc |-> "returned", pool |-> None]]
    /\ UNCHANGED NotDb

\* await _pool.close() completes: _pool = None.
PoolClosed ==
    /\ db.closer.pc = "close"
    /\ db' = [db EXCEPT !.closed = @ \cup {db.closer.pool}, !._pool = None,
                        !.closer = [pc |-> "returned", pool |-> None]]
    /\ UNCHANGED NotDb

DbNext ==
    \/ \E c \in 1..PoolCallers : get_db_pool(c)
    \/ \E c \in 1..PoolCallers : create_pool(c)
    \/ close_db_pool
    \/ PoolClosed

OpenPools == (1..db.created) \ db.closed

\* C30 - one pool: before close_db_pool is called at most one pool has been
\* created and all callers that have returned hold the same pool; at no
\* time is more than one pool open.
C30_OnePool ==
    /\ Cardinality(OpenPools) <= 1
    /\ db.closer.pc = "idle"
          => /\ db.created <= 1
             /\ \A a, b \in 1..PoolCallers :
                   (db.caller[a].pc = "returned" /\ db.caller[b].pc = "returned")
                      => db.caller[a].pool = db.caller[b].pool

\* ================================================================= Quiz
\* The numbers of questions tried: the component throws for fewer than 5
\* or more than 10 questions.
QuestionCounts == {MinQuestions, MinQuestions + 1}

\* The questions prop: n questions, each with QuizOptions options (numbered
\* from 1) of which one is the correctAnswer.
questions(n) ==
    [i \in 1..n |-> [id |-> i, correctAnswer |-> (i % QuizOptions) + 1]]

\* config?.shuffle is true, false or undefined (no config, or a config
\* without shuffle); only true is truthy.
ShuffleValues == {"true", "false", "undefined"}

Truthy(shuffle) == shuffle = "true"

\* [...questions].sort(() => Math.random() - 0.5): the random draws are
\* taken from two orders, the given one and its rotation by one place,
\* which moves every question.
Shuffled(qs) ==
    {[i \in 1..Len(qs) |-> qs[((i + r - 1) % Len(qs)) + 1]] : r \in {0, 1}}

\* new Map(): userAnswers maps a question index to the chosen option; 0
\* stands for an index without an entry.
NewMap(qs) == [i \in 1..Len(qs) |-> 0]

size(userAnswers) == Cardinality({i \in DOMAIN userAnswers : userAnswers[i] # 0})

Unmounted ==
    [phase |-> "unmounted", questions |-> <<>>, shuffle |-> "undefined",
     displayQuestions |-> <<>>, userAnswers |-> <<>>, submitted |-> FALSE,
     score |-> 0, randomized |-> FALSE, retaken |-> FALSE]

QuizInit == quiz = Unmounted

NotQuiz == <<govVars, cacheVars, chatVars, askVars, asmVars, spendVars, authVars, homeVars,
            dbVars>>

\* const allAnswered = userAnswers.size === displayQuestions.length
allAnswered == size(quiz.userAnswers) = Len(quiz.displayQuestions)

\* The Submit button is rendered while the quiz is not submitted, and is
\* disabled={!allAnswered}.
SubmitEnabled ==
    quiz.phase \in {"rendered", "mounted"} /\ ~quiz.submitted /\ allAnswered

\* Quiz({questions, config}) is rendered for the first time: the useState
\* initial values are on screen, the mount effect has not run yet.
Quiz(qs, shuffle) ==
    /\ quiz.phase = "unmounted"
    /\ quiz' = [Unmounted EXCEPT !.phase = "rendered", !.questions = qs,
                                 !.shuffle = shuffle, !.userAnswers = NewMap(qs)]
    /\ UNCHANGED NotQuiz

\* The body of the effect: the order put on display for the props qs and
\* shuffle, and whether the random sort produced it.
EffectOrders(qs, shuffle) ==
    IF Truthy(shuffle)
    THEN {[order |-> d, randomized |-> TRUE] : d \in Shuffled(qs)}
    ELSE {[order |-> qs, randomized |-> FALSE]}

\* useEffect(() => {...}, [questions, config?.shuffle]) after the first
\* render.
useEffect ==
    /\ quiz.phase = "rendered"
    /\ \E e \in EffectOrders(quiz.questions, quiz.shuffle) :
          quiz' = [quiz EXCEPT !.phase = "mounted", !.displayQuestions = e.order,
                               !.randomized = e.randomized]
    /\ UNCHANGED NotQuiz

\* The parent renders the Quiz again with a new questions array (the same
\* questions) and a config: a dependency of the effect has changed, so the
\* effect runs again after the render.
QuizRerender(shuffle) ==
    /\ quiz.phase = "mounted"
    /\ \E e \in EffectOrders(quiz.questions, shuffle) :
          quiz' = [quiz EXCEPT !.shuffle = shuffle, !.displayQuestions = e.order,
                               !.randomized = e.randomized]
    /\ UNCHANGED NotQuiz

\* A click on option optionIndex of the displayed question questionIndex.
handleAnswerSelect(questionIndex, optionIndex) ==
    /\ quiz.phase = "mounted"
    /\ questionIndex \in 1..Len(quiz.displayQuestions)
    /\ ~quiz.submitted
    /\ quiz' = [quiz EXCEPT !.userAnswers[questionIndex] = optionIndex]
    /\ UNCHANGED NotQuiz

correctCountAnswered(displayQuestions, userAnswers) == size(userAnswers)

\* displayQuestions.forEach: the questions whose recorded answer is the
\* correctAnswer.
correctCount(displayQuestions, userAnswers) ==
    Cardinality({i \in 1..Len(displayQuestions) :
                    userAnswers[i] = displayQuestions[i].correctAnswer})

\* A click on the Submit button.  On the first render the pending mount
\* effect is flushed before the component renders again, so the results
\* appear with the questions on display.
QuizHandleSubmit ==
    /\ SubmitEnabled
    /\ allAnswered
    /\ LET submittedQuiz ==
              [quiz EXCEPT !.score = correctCount(quiz.displayQuestions, quiz.userAnswers),
                           !.submitted = TRUE]
       IN IF quiz.phase = "rendered"
          THEN \E e \in EffectOrders(quiz.questions, quiz.shuffle) :
                  quiz' = [submittedQuiz EXCEPT !.phase = "mounted",
                                                !.displayQuestions = e.order,
                                                !.randomized = e.randomized]
          ELSE quiz' = submittedQuiz
    /\ UNCHANGED NotQuiz

handleRetakeKeepsAnswers ==
    /\ quiz.phase = "mounted"
    /\ quiz.submitted
    /\ quiz' = [quiz EXCEPT !.submitted = FALSE, !.score = 0, !.retaken = TRUE]
    /\ UNCHANGED NotQuiz

\* A click on the Retake button of the results.
handleRetake ==
    /\ quiz.phase = "mounted"
    /\ quiz.submitted
    /\ \E e \in (IF Truthy(quiz.shuffle)
                 THEN EffectOrders(quiz.questions, quiz.shuffle)
                 ELSE {[order |-> quiz.displayQuestions, randomized |-> quiz.randomized]}) :
          quiz' = [quiz EXCEPT !.userAnswers = NewMap(quiz.questions),
                               !.submitted = FALSE, !.score = 0,
                               !.displayQuestions = e.order,
                               !.randomized = e.randomized, !.retaken = TRUE]
    /\ UNCHANGED NotQuiz

\* Math.round(x) for x = num / den >= 0: NaN for 0 / 0, else the floor of
\* x + 0.5.
MathRound(num, den) ==
    IF den = 0
    THEN [isNaN |-> TRUE, value |-> 0]
    ELSE [isNaN |-> FALSE, value |-> (2 * num + den) \div (2 * den)]

\* The results: Math.round((score / displayQuestions.length) * 100)
scorePercentage == MathRound(100 * quiz.score, Len(quiz.displayQuestions))

QuizNext ==
    \/ \E n \in QuestionCounts, shuffle \in ShuffleValues : Quiz(questions(n), shuffle)
    \/ useEffect
    \/ \E shuffle \in ShuffleValues : QuizRerender(shuffle)
    \/ \E q \in 1..(MinQuestions + 1), o \in 1..QuizOptions : handleAnswerSelect(q, o)
    \/ QuizHandleSubmit
    \/ handleRetake

EveryQuestionAnswered ==
    \A i \in 1..Len(quiz.questions) : quiz.userAnswers[i] # 0

\* C20 - no submission before all questions are answered: whenever the
\* Submit button is enabled, and whenever the quiz is submitted, every
\* question of the quiz has a selected answer.
C20_SubmitOnlyWhenAllAnswered ==
    (SubmitEnabled \/ (quiz.phase # "unmounted" /\ quiz.submitted))
        => EveryQuestionAnswered

\* C21 - quiz score: a submission stores as score the number of displayed
\* questions whose selected option is the question's correct answer, a
\* number between 0 and the number of questions; the percentage shown with
\* the results is the integer nearest to 100 * score / number of questions
\* (the upper one of two).
C21_ScoreCountsCorrect ==
    /\ [][(~quiz.submitted /\ quiz'.submitted)
            => /\ quiz'.score =
                     Cardinality({i \in 1..Len(quiz'.displayQuestions) :
                        quiz'.userAnswers[i] = quiz'.displayQuestions[i].correctAnswer})
               /\ quiz'.score >= 0
               /\ quiz'.score <= Len(quiz'.questions)]_vars
    /\ [](quiz.submitted
            => /\ ~scorePercentage.isNaN
               /\ LET n == Len(quiz.questions)
                      p == scorePercentage.value
                  IN /\ 2 * (100 * quiz.score - p * n) <= n
                     /\ 2 * (p * n - 100 * quiz.score) < n)

\* A submitted quiz of six questions with one correct answer: 17%.
C21_Witness ==
    /\ quiz.submitted
    /\ Len(quiz.questions) = MinQuestions + 1
    /\ quiz.score = 1
    /\ EveryQuestionAnswered
    /\ scorePercentage.value = 17

\* C22 - retake: a retake of a submitted quiz leaves no recorded answer,
\* submitted false and score 0, draws a new order when config.shuffle is
\* true, and keeps the set of questions; with the questions on display the
\* Submit button is enabled only when every question has an answer.
C22_RetakeResets ==
    /\ [][(quiz.submitted /\ ~quiz'.submitted)
            => /\ \A i \in 1..Len(quiz'.questions) : quiz'.userAnswers[i] = 0
               /\ quiz'.score = 0
               /\ quiz.shuffle = "true" => quiz'.displayQuestions \in Shuffled(quiz.questions)
               /\ quiz.shuffle = "true" => quiz'.randomized
               /\ Len(quiz'.displayQuestions) = Len(quiz.questions)
               /\ {quiz'.displayQuestions[i] : i \in 1..Len(quiz'.displayQuestions)}
                     = {quiz.questions[i] : i \in 1..Len(quiz.questions)}
               /\ ~SubmitEnabled']_vars
    /\ []((quiz.phase = "mounted" /\ SubmitEnabled) => EveryQuestionAnswered)

\* A retaken quiz, shuffled into another order, that is answered again and
\* can be submitted.
C22_Witness ==
    /\ quiz.retaken /\ quiz.shuffle = "true"
    /\ quiz.displayQuestions # quiz.questions
    /\ ~quiz.submitted /\ SubmitEnabled /\ EveryQuestionAnswered

\* C23 - shuffle defaults to true: with no config, or a config without
\* shuffle, the order on display after the mount effect, a re-render or a
\* retake was drawn by the random sort.
C23_ShuffleDefaultsTrue ==
    (quiz.phase = "mounted" /\ quiz.shuffle = "undefined") => quiz.randomized

\* The review marks question i correct when the recorded answer of
\* position i is the correctAnswer of the question displayed there.
ReviewCorrect ==
    Cardinality({i \in 1..Len(quiz.displayQuestions) :
                    quiz.userAnswers[i] = quiz.displayQuestions[i].correctAnswer})

\* C26 - answers stay attached: no step that starts and ends with a recorded
\* answer changes the display order, and while the quiz is submitted the
\* stored score is the number of answers the review shows as correct.
C26_AnswersStayAttached ==
    /\ [][(size(quiz.userAnswers) > 0 /\ size(quiz'.userAnswers) > 0)
            => quiz'.displayQuestions = quiz.displayQuestions]_vars
    /\ [](quiz.submitted => quiz.score = ReviewCorrect)

OtherInit ==
    /\ AuthInit
    /\ QuizInit
    /\ HomeInit
    /\ DbInit
    /\ asm = <<>>
    /\ spend = [u \in Identities |-> NoSpend]

Init == GovInit /\ CacheInit /\ ChatInit /\ AskInit(QuietWorld) /\ OtherInit

\* The asker has already used c questions of the current hour.
AskStart(c, w) ==
    /\ now = 0
    /\ ticks = 0
    /\ usage = [u \in Identities |-> [k \in Kinds |->
                   [window_start |-> 0,
                    count |-> IF u = Asker /\ k = "question" THEN c ELSE 0]]]
    /\ pending = [s \in 1..GovSlots |-> Idle]
    /\ admitted = [u \in Identities |-> [k \in Kinds |->
                   IF u = Asker /\ k = "question" THEN c ELSE 0]]
    /\ calls = [u \in Identities |-> [k \in Kinds |->
                   IF u = Asker /\ k = "question" THEN c ELSE 0]]
    /\ lastResult = [u \in Identities |-> [k \in Kinds |-> NoResult]]
    /\ load = "question"
    /\ CacheInit /\ ChatInit /\ AskInit(w) /\ OtherInit

SpecAsk ==
    /\ \E c \in {0, QuestionsPerHour - 1}, w \in Worlds :
          (c = 0 \/ w = Nominal) /\ AskStart(c, w)
    /\ [][AskNext]_vars

SpecAuth == Init /\ [][AuthNext]_vars

SpecHome == AskStart(0, QuietWorld) /\ [][HomeNext]_vars

SpecDb == AskStart(0, QuietWorld) /\ [][DbNext]_vars

SpecAuthModal == AskStart(0, QuietWorld) /\ [][AuthModalNext]_vars

SpecQuiz == AskStart(0, QuietWorld) /\ [][QuizNext]_vars

SpecBudget == Init /\ [][BudgetNext]_vars

SpecAssemble == Init /\ [][AssembleNext]_vars

SpecChatUI == Init /\ [][ChatNext]_vars

SpecCacheDB == Init /\ [][CacheNext]_vars

SpecGov == Init /\ [][GovNext]_vars

Spec == SpecGov
====
